---- MODULE Spec2Model ----
(***************************************************************************)
(* Task tracker (src/main.py): a list of Task records kept in one JSON     *)
(* file, TASKS_FILE, with a sibling backup file used when the file cannot  *)
(* be parsed.  Every operation loads the whole file, changes the list in   *)
(* memory and writes the whole file back.                                  *)
(*                                                                         *)
(* Strings the code inspects character by character (ids, titles) are      *)
(* tuples of one-character strings.  Optional[x] is a tuple of length 0    *)
(* (None) or 1.                                                            *)
(***************************************************************************)
EXTENDS Integers, Sequences, FiniteSets, TLC

VARIABLES
    file,     \* TASKS_FILE on disk: [exists, doc]
    backup,   \* TASKS_FILE.with_suffix(".bak.json") on disk: [exists, doc]
    issued,   \* the ids uuid.uuid4() has returned so far
    now,      \* the wall clock, in seconds
    last,     \* the last call made and what it returned
    writer,   \* each concurrent writer's position in add_task and its locals
    pc        \* where menu() is: at its prompt, or returned

vars == <<file, backup, issued, now, last, writer, pc>>

-----------------------------------------------------------------------------
(* Bounds *)

MaxTasks == 3     \* add_task is not called on a store that holds this many
MaxRecoveries == 3  \* the file is not replaced once load_tasks has moved this many

(* Input domains *)

Writers == {1, 2}

IdChars == {"a", "b"}
Ids == {<<c, d>> : c \in IdChars, d \in IdChars}
Prefixes == {<<>>, <<"a">>, <<"a", "a">>}

None == <<>>
Some(x) == <<x>>

Request(title, due_date, priority) ==
    [title |-> title, due_date |-> due_date, priority |-> priority]

(* date strings, character by character *)
Date_2024_01_01 == <<"2", "0", "2", "4", "-", "0", "1", "-", "0", "1">>
Date_2024_13_40 == <<"2", "0", "2", "4", "-", "1", "3", "-", "4", "0">>

AddRequests ==
    { Request(<<" ", "x", " ">>, Some(Date_2024_01_01), 2),
      Request(<<"y">>, Some(Date_2024_13_40), 7) }

Filters == {None, Some(TRUE), Some(FALSE)}

ClockReadings == {0, 1}

-----------------------------------------------------------------------------
(* class Task *)

Task(id, title, created_at, due_date, priority, completed) ==
    [id |-> id, title |-> title, created_at |-> created_at,
     due_date |-> due_date, priority |-> priority, completed |-> completed]

FieldNames == {"id", "title", "created_at", "due_date", "priority", "completed"}
RequiredFields == {"id", "title", "created_at"}

(* str.strip(): drop leading and trailing whitespace *)
Whitespace == {" "}

RECURSIVE lstrip(_)
lstrip(s) ==
    IF s # <<>> /\ Head(s) \in Whitespace THEN lstrip(Tail(s)) ELSE s

RECURSIVE rstrip(_)
rstrip(s) ==
    IF s # <<>> /\ s[Len(s)] \in Whitespace
    THEN rstrip(SubSeq(s, 1, Len(s) - 1))
    ELSE s

strip(s) == rstrip(lstrip(s))

(* startswith written as == : only the full id matches *)
startswith_equal(s, p) == s = p

(* startswith that takes the empty prefix to match nothing *)
startswith_nonempty(s, p) ==
    p # <<>> /\ Len(p) <= Len(s) /\ SubSeq(s, 1, Len(p)) = p

(* str.startswith *)
startswith(s, p) ==
    Len(p) <= Len(s) /\ SubSeq(s, 1, Len(p)) = p

(* Decimal digits, int() of a digit string and a number printed in at      *)
(* least width digits, zero-padded                                         *)
Digits == <<"0", "1", "2", "3", "4", "5", "6", "7", "8", "9">>
IsDigit(c) == \E i \in 1..10 : Digits[i] = c
DigitVal(c) == (CHOOSE i \in 1..10 : Digits[i] = c) - 1

RECURSIVE int(_)
int(s) ==
    IF s = <<>> THEN 0
    ELSE 10 * int(SubSeq(s, 1, Len(s) - 1)) + DigitVal(s[Len(s)])

RECURSIVE zfill(_, _)
zfill(n, width) ==
    IF n < 10 /\ width <= 1 THEN <<Digits[n + 1]>>
    ELSE Append(zfill(n \div 10, width - 1), Digits[(n % 10) + 1])

(* _now_str(): the clock reading t, seconds into a day, formatted as        *)
(* "%Y-%m-%d %H:%M:%S": the date, then hour, minute and second             *)
now_str(t) == <<"2024-01-01", t \div 3600, (t \div 60) % 60, t % 60>>

(* an id generator that may repeat itself *)
uuid4_repeating(used) == Ids

(* uuid.uuid4(): an id no earlier call returned *)
uuid4(used) == Ids \ used

-----------------------------------------------------------------------------
(***************************************************************************)
(* datetime.strptime(s, DATE_FMT) and strftime(DATE_FMT), DATE_FMT being    *)
(* "%Y-%m-%d".  strptime matches the whole of s against                    *)
(*     (\d\d\d\d)-(1[0-2]|0[1-9]|[1-9])-(3[0-1]|[1-2]\d|0[1-9]|[1-9]| [1-9]) *)
(* and raises ValueError when s does not match, when the year is 0 or when *)
(* the month has no such day.  strftime prints month and day in two digits *)
(* and the year as the C library's %Y does: in four digits, or (glibc)     *)
(* without leading zeros; pad_year tells which.                            *)
(***************************************************************************)

NonZeroDigits == {"1", "2", "3", "4", "5", "6", "7", "8", "9"}

(* %Y: \d\d\d\d *)
YearOk(y) == Len(y) = 4 /\ \A i \in 1..4 : IsDigit(y[i])

(* %m: 1[0-2]|0[1-9]|[1-9] *)
MonthOk(m) ==
    \/ Len(m) = 2 /\ m[1] = "1" /\ m[2] \in {"0", "1", "2"}
    \/ Len(m) = 2 /\ m[1] = "0" /\ m[2] \in NonZeroDigits
    \/ Len(m) = 1 /\ m[1] \in NonZeroDigits

(* %d: 3[0-1]|[1-2]\d|0[1-9]|[1-9]| [1-9] *)
DayOk(d) ==
    \/ Len(d) = 2 /\ d[1] = "3" /\ d[2] \in {"0", "1"}
    \/ Len(d) = 2 /\ d[1] \in {"1", "2"} /\ IsDigit(d[2])
    \/ Len(d) = 2 /\ d[1] \in {"0", " "} /\ d[2] \in NonZeroDigits
    \/ Len(d) = 1 /\ d[1] \in NonZeroDigits

(* the lengths the month group can have in a match of the whole of s *)
MonthLens(s) ==
    { n \in 1..2 :
        /\ Len(s) >= 7 + n
        /\ YearOk(SubSeq(s, 1, 4))
        /\ s[5] = "-"
        /\ MonthOk(SubSeq(s, 6, 5 + n))
        /\ s[6 + n] = "-"
        /\ DayOk(SubSeq(s, 7 + n, Len(s))) }

IsLeap(y) == y % 4 = 0 /\ (y % 100 # 0 \/ y % 400 = 0)

DaysInMonth(y, m) ==
    IF m = 2 THEN (IF IsLeap(y) THEN 29 ELSE 28)
    ELSE IF m \in {4, 6, 9, 11} THEN 30 ELSE 31

(* strptime: None for ValueError, else Some of the date *)
strptime(s) ==
    IF MonthLens(s) = {} THEN None
    ELSE LET n == CHOOSE k \in MonthLens(s) : TRUE
             year == int(SubSeq(s, 1, 4))
             month == int(SubSeq(s, 6, 5 + n))
             day == int(lstrip(SubSeq(s, 7 + n, Len(s))))
         IN  IF year >= 1 /\ day <= DaysInMonth(year, month)
             THEN Some([year |-> year, month |-> month, day |-> day])
             ELSE None

strftime(dt, pad_year) ==
    zfill(dt.year, IF pad_year THEN 4 ELSE 1) \o <<"-">>
    \o zfill(dt.month, 2) \o <<"-">> \o zfill(dt.day, 2)

(* parse_due_date that returns the trimmed input as it was typed *)
parse_due_date_verbatim(s, pad_year) ==
    LET t == strip(s)
    IN  IF t = <<>> THEN None
        ELSE IF strptime(t) = None THEN None
        ELSE Some(t)

parse_due_date(s, pad_year) ==
    LET t == strip(s)
    IN  IF t = <<>> THEN None
        ELSE LET dt == strptime(t)
             IN  IF dt = None THEN None
                 ELSE Some(strftime(dt[1], pad_year))

-----------------------------------------------------------------------------
(***************************************************************************)
(* The file's content.  A doc is [kind, raw, items]:                       *)
(*   "text"    bytes that are not JSON (raw names them)                    *)
(*   "scalar"  a JSON value that cannot be iterated (null, a number)       *)
(*   "object"  a JSON object at top level, items its keys                  *)
(*   "array"   a JSON array, items its elements; an element is a JSON      *)
(*             object, a record from its keys to their values              *)
(***************************************************************************)

Doc(kind, raw, items) == [kind |-> kind, raw |-> raw, items |-> items]

NoFile == [exists |-> FALSE, doc |-> Doc("text", "", <<>>)]
FileOf(doc) == [exists |-> TRUE, doc |-> doc]

(* asdict without the completed field *)
asdict_no_completed(t) ==
    [id |-> t.id, title |-> t.title, created_at |-> t.created_at,
     due_date |-> t.due_date, priority |-> t.priority]

(* dataclasses.asdict: a dict of the fields *)
asdict(t) ==
    [id |-> t.id, title |-> t.title, created_at |-> t.created_at,
     due_date |-> t.due_date, priority |-> t.priority,
     completed |-> t.completed]

RECURSIVE MapAsdict(_)
MapAsdict(tasks) ==
    IF tasks = <<>> THEN <<>>
    ELSE <<asdict(Head(tasks))>> \o MapAsdict(Tail(tasks))

json_dumps(tasks) == Doc("array", "", MapAsdict(tasks))

Keys(item) == DOMAIN item

(* the value item holds under key k, or the field's default *)
Get(item, k, default) == IF k \in Keys(item) THEN item[k] ELSE default

(* Task built from the keywords of item: TypeError on an unknown or a     *)
(* missing required key                                                    *)
ItemOk(item) ==
    /\ Keys(item) \subseteq FieldNames
    /\ RequiredFields \subseteq Keys(item)

TaskOfItem(item) ==
    Task(item.id, item.title, item.created_at, Get(item, "due_date", None),
         Get(item, "priority", 3), Get(item, "completed", FALSE))

RECURSIVE MapTaskOfItem(_)
MapTaskOfItem(items) ==
    IF items = <<>> THEN <<>>
    ELSE <<TaskOfItem(Head(items))>> \o MapTaskOfItem(Tail(items))

(* the try block of load_tasks raises *)
LoadRaises(doc) ==
    \/ doc.kind = "text"                          \* json.loads: JSONDecodeError
    \/ doc.kind = "scalar"                        \* for item in data: TypeError
    \/ doc.kind = "object" /\ doc.items # <<>>    \* Task(**"key"): TypeError
    \/ doc.kind = "array" /\ \E i \in 1..Len(doc.items) : ~ItemOk(doc.items[i])

(* load_tasks whose except branch leaves the file where it is *)
load_tasks_no_rename(f, b) ==
    IF ~f.exists THEN [ret |-> <<>>, file |-> f, backup |-> b]
    ELSE IF ~LoadRaises(f.doc)
    THEN [ret |-> IF f.doc.kind = "array" THEN MapTaskOfItem(f.doc.items) ELSE <<>>,
          file |-> f, backup |-> b]
    ELSE [ret |-> <<>>, file |-> f, backup |-> b]

(* load_tasks whose rename leaves a backup that exists already alone *)
load_tasks_keep_backup(f, b) ==
    IF ~f.exists THEN [ret |-> <<>>, file |-> f, backup |-> b]
    ELSE IF ~LoadRaises(f.doc)
    THEN [ret |-> IF f.doc.kind = "array" THEN MapTaskOfItem(f.doc.items) ELSE <<>>,
          file |-> f, backup |-> b]
    ELSE [ret |-> <<>>, file |-> NoFile, backup |-> IF b.exists THEN b ELSE f]

(* load_tasks: [ret, file, backup].  Path.rename replaces a backup that     *)
(* exists already (POSIX).                                                 *)
load_tasks(f, b) ==
    IF ~f.exists THEN [ret |-> <<>>, file |-> f, backup |-> b]
    ELSE IF ~LoadRaises(f.doc)
    THEN [ret |-> IF f.doc.kind = "array" THEN MapTaskOfItem(f.doc.items) ELSE <<>>,
          file |-> f, backup |-> b]
    ELSE [ret |-> <<>>, file |-> NoFile, backup |-> f]

(* save_tasks: the file after write_text *)
save_tasks(tasks) == FileOf(json_dumps(tasks))

-----------------------------------------------------------------------------
(* Task operations.  Each returns [ret, file, backup, wrote, loaded]: wrote *)
(* tells whether save_tasks ran, loaded is len(tasks) as load_tasks gave   *)
(* it.                                                                     *)

(* add_task that puts the new task first *)
add_task_prepend(f, b, title, due_date, priority, id, t) ==
    LET l == load_tasks(f, b)
        task == Task(id, strip(title), now_str(t), due_date, priority, FALSE)
        tasks == <<task>> \o l.ret
    IN  [ret |-> task, file |-> save_tasks(tasks), backup |-> l.backup,
         wrote |-> TRUE, loaded |-> Len(l.ret)]

add_task(f, b, title, due_date, priority, id, t) ==
    LET l == load_tasks(f, b)
        task == Task(id, strip(title), now_str(t), due_date, priority, FALSE)
        tasks == Append(l.ret, task)
    IN  [ret |-> task, file |-> save_tasks(tasks), backup |-> l.backup,
         wrote |-> TRUE, loaded |-> Len(l.ret)]

(* the filter of list_tasks with != for == *)
RECURSIVE FilterInverted(_, _)
FilterInverted(tasks, show_completed) ==
    IF tasks = <<>> THEN <<>>
    ELSE IF Head(tasks).completed # show_completed
    THEN <<Head(tasks)>> \o FilterInverted(Tail(tasks), show_completed)
    ELSE FilterInverted(Tail(tasks), show_completed)

RECURSIVE Filter(_, _)
Filter(tasks, show_completed) ==
    IF tasks = <<>> THEN <<>>
    ELSE IF Head(tasks).completed = show_completed
    THEN <<Head(tasks)>> \o Filter(Tail(tasks), show_completed)
    ELSE Filter(Tail(tasks), show_completed)

(* list_tasks that writes the list it returns back to the file *)
list_tasks_saving(f, b, show_completed) ==
    LET l == load_tasks(f, b)
        ret == IF show_completed = None THEN l.ret
               ELSE Filter(l.ret, show_completed[1])
    IN  [ret |-> ret, file |-> save_tasks(ret), backup |-> l.backup,
         wrote |-> TRUE, loaded |-> Len(l.ret)]

list_tasks(f, b, show_completed) ==
    LET l == load_tasks(f, b)
    IN  [ret |-> IF show_completed = None THEN l.ret
                 ELSE Filter(l.ret, show_completed[1]),
         file |-> l.file, backup |-> l.backup, wrote |-> FALSE,
         loaded |-> Len(l.ret)]

(* the for loop of complete_task without its break *)
RECURSIVE CompleteLoopNoBreak(_, _)
CompleteLoopNoBreak(tasks, task_id) ==
    IF tasks = <<>> THEN <<>>
    ELSE IF startswith(Head(tasks).id, task_id)
    THEN <<[Head(tasks) EXCEPT !.completed = TRUE]>>
         \o CompleteLoopNoBreak(Tail(tasks), task_id)
    ELSE <<Head(tasks)>> \o CompleteLoopNoBreak(Tail(tasks), task_id)

(* the for loop of complete_task flipping the flag instead of setting it *)
RECURSIVE CompleteLoopToggle(_, _)
CompleteLoopToggle(tasks, task_id) ==
    IF tasks = <<>> THEN <<>>
    ELSE IF startswith(Head(tasks).id, task_id)
    THEN <<[Head(tasks) EXCEPT !.completed = ~Head(tasks).completed]>>
         \o Tail(tasks)
    ELSE <<Head(tasks)>> \o CompleteLoopToggle(Tail(tasks), task_id)

(* the for loop of complete_task: the list after it *)
RECURSIVE CompleteLoop(_, _)
CompleteLoop(tasks, task_id) ==
    IF tasks = <<>> THEN <<>>
    ELSE IF startswith(Head(tasks).id, task_id)
    THEN <<[Head(tasks) EXCEPT !.completed = TRUE]>> \o Tail(tasks)
    ELSE <<Head(tasks)>> \o CompleteLoop(Tail(tasks), task_id)

Matches(tasks, task_id) ==
    \E i \in 1..Len(tasks) : startswith(tasks[i].id, task_id)

complete_task(f, b, task_id) ==
    LET l == load_tasks(f, b)
        changed == Matches(l.ret, task_id)
    IN  [ret |-> changed,
         file |-> IF changed THEN save_tasks(CompleteLoop(l.ret, task_id))
                  ELSE l.file,
         backup |-> l.backup, wrote |-> changed, loaded |-> Len(l.ret)]

(* the comprehension of delete_task dropping only the first match *)
RECURSIVE NotFirstMatching(_, _)
NotFirstMatching(tasks, task_id) ==
    IF tasks = <<>> THEN <<>>
    ELSE IF startswith(Head(tasks).id, task_id) THEN Tail(tasks)
    ELSE <<Head(tasks)>> \o NotFirstMatching(Tail(tasks), task_id)

RECURSIVE NotMatching(_, _)
NotMatching(tasks, task_id) ==
    IF tasks = <<>> THEN <<>>
    ELSE IF ~startswith(Head(tasks).id, task_id)
    THEN <<Head(tasks)>> \o NotMatching(Tail(tasks), task_id)
    ELSE NotMatching(Tail(tasks), task_id)

(* delete_task that saves and reports success whatever it found *)
delete_task_always(f, b, task_id) ==
    LET l == load_tasks(f, b)
        new_tasks == NotMatching(l.ret, task_id)
    IN  [ret |-> TRUE, file |-> save_tasks(new_tasks),
         backup |-> l.backup, wrote |-> TRUE, loaded |-> Len(l.ret)]

delete_task(f, b, task_id) ==
    LET l == load_tasks(f, b)
        new_tasks == NotMatching(l.ret, task_id)
        changed == Len(new_tasks) # Len(l.ret)
    IN  [ret |-> changed,
         file |-> IF changed THEN save_tasks(new_tasks) ELSE l.file,
         backup |-> l.backup, wrote |-> changed, loaded |-> Len(l.ret)]

-----------------------------------------------------------------------------
(***************************************************************************)
(* print_tasks: the rows it prints, in the order it prints them.           *)
(* Strings compare as Python compares them: character by character, by     *)
(* code point, a proper prefix first.                                      *)
(***************************************************************************)

ord ==
    [c \in {" ", "-"} \cup {Digits[i] : i \in 1..10} |->
        IF c = " " THEN 32
        ELSE IF c = "-" THEN 45
        ELSE 48 + DigitVal(c)]

RECURSIVE StrLess(_, _)
StrLess(a, b) ==
    IF b = <<>> THEN FALSE
    ELSE IF a = <<>> THEN TRUE
    ELSE IF Head(a) # Head(b) THEN ord[Head(a)] < ord[Head(b)]
    ELSE StrLess(Tail(a), Tail(b))

Sentinel == <<"9", "9", "9", "9", "-", "1", "2", "-", "3", "1">>

(* x or default: default when x is None or the empty string *)
Or(x, default) == IF x = None \/ x = Some(<<>>) THEN default ELSE x[1]

sort_key(t) ==
    <<t.completed, Or(t.due_date, Sentinel), t.priority, t.created_at>>

(* created_at strings of one day compare as their hour, minute, second *)
CreatedLess(a, b) ==
    IF a[2] # b[2] THEN a[2] < b[2]
    ELSE IF a[3] # b[3] THEN a[3] < b[3]
    ELSE a[4] < b[4]

(* tuple comparison k1 < k2: by the first component that differs *)
KeyLess(k1, k2) ==
    IF k1[1] # k2[1] THEN k2[1]
    ELSE IF k1[2] # k2[2] THEN StrLess(k1[2], k2[2])
    ELSE IF k1[3] # k2[3] THEN k1[3] < k2[3]
    ELSE CreatedLess(k1[4], k2[4])

(* t put into the sorted list q before the first element its key is less   *)
(* than, after the elements of equal key                                   *)
RECURSIVE Insert(_, _)
Insert(q, t) ==
    IF q = <<>> THEN <<t>>
    ELSE IF KeyLess(sort_key(t), sort_key(Head(q))) THEN <<t>> \o q
    ELSE <<Head(q)>> \o Insert(Tail(q), t)

(* sorted(tasks, key=sort_key): a stable sort *)
RECURSIVE sorted(_)
sorted(tasks) ==
    IF tasks = <<>> THEN <<>>
    ELSE Insert(sorted(SubSeq(tasks, 1, Len(tasks) - 1)), tasks[Len(tasks)])

(* the line print_tasks prints for t; the ids here have no "-", so         *)
(* id.split("-")[0] is the id                                              *)
Row(t) ==
    [short_id |-> t.id,
     title |-> IF Len(t.title) > 30
               THEN SubSeq(t.title, 1, 27) \o <<".", ".", ".">>
               ELSE t.title,
     due |-> Or(t.due_date, <<"-">>),
     pri |-> t.priority,
     status |-> IF t.completed THEN "done" ELSE "todo",
     created_at |-> t.created_at]

RECURSIVE MapRow(_)
MapRow(tasks) ==
    IF tasks = <<>> THEN <<>>
    ELSE <<Row(Head(tasks))>> \o MapRow(Tail(tasks))

(* print_tasks: [message, order, rows, tasks], order being tasks_sorted     *)
(* and tasks the list passed in as the call leaves it (sorted builds a     *)
(* new list)                                                               *)
print_tasks(tasks) ==
    IF tasks = <<>>
    THEN [message |-> "No tasks yet. Add one!", order |-> <<>>, rows |-> <<>>,
          tasks |-> tasks]
    ELSE LET tasks_sorted == sorted(tasks)
         IN  [message |-> "", order |-> tasks_sorted,
              rows |-> MapRow(tasks_sorted), tasks |-> tasks]

-----------------------------------------------------------------------------
(* The stored collection: what load_tasks returns *)
Stored == load_tasks(file, backup).ret

NoRequest == Request(<<>>, None, 3)

(* A call and its outcome: the operation, its arguments (pfx, filt, req),  *)
(* its return value (ok for a bool, out for a task or a list) and the      *)
(* wrote and loaded of its result.                                         *)
Call(op, pfx, filt, req, ok, out, r) ==
    [op |-> op, pfx |-> pfx, filt |-> filt, req |-> req, ok |-> ok,
     out |-> out, wrote |-> r.wrote, loaded |-> r.loaded]

NoResult == [wrote |-> FALSE, loaded |-> 0]

(* a writer that has not called add_task *)
NoWriter ==
    [pc |-> "start", tasks |-> <<>>, task |-> <<>>, overlapped |-> FALSE,
     saved |-> 0]

Init ==
    /\ file = NoFile
    /\ backup = NoFile
    /\ issued = {}
    /\ now = 0
    /\ last = Call("none", <<>>, None, NoRequest, FALSE, <<>>, NoResult)
    /\ writer = [w \in Writers |-> NoWriter]
    /\ pc = "prompt"

(* __main__: the data file is created when it does not exist *)
Main ==
    /\ ~file.exists
    /\ file' = save_tasks(<<>>)
    /\ last' = Call("main", <<>>, None, NoRequest, TRUE, <<>>,
                    [wrote |-> TRUE, loaded |-> 0])
    /\ UNCHANGED <<backup, issued, now, writer, pc>>

AddTask ==
    /\ Len(Stored) < MaxTasks
    /\ \E req \in AddRequests, id \in uuid4(issued) :
       \E t \in {c \in ClockReadings : c >= now} :
       \E r \in {add_task(file, backup, req.title, req.due_date, req.priority, id, t)} :
            /\ file' = r.file
            /\ backup' = r.backup
            /\ issued' = issued \cup {id}
            /\ now' = t
            /\ last' = Call("add", <<>>, None, req, TRUE, <<r.ret>>, r)
            /\ UNCHANGED <<writer, pc>>

ListTasks ==
    \E filt \in Filters :
        \E r \in {list_tasks(file, backup, filt)} :
            /\ file' = r.file
            /\ backup' = r.backup
            /\ last' = Call("list", <<>>, filt, NoRequest, TRUE, r.ret, r)
            /\ UNCHANGED <<issued, now, writer, pc>>

CompleteTask ==
    \E p \in Prefixes :
        \E r \in {complete_task(file, backup, p)} :
            /\ file' = r.file
            /\ backup' = r.backup
            /\ last' = Call("complete", p, None, NoRequest, r.ret, <<>>, r)
            /\ UNCHANGED <<issued, now, writer, pc>>

DeleteTask ==
    \E p \in Prefixes :
        \E r \in {delete_task(file, backup, p)} :
            /\ file' = r.file
            /\ backup' = r.backup
            /\ last' = Call("delete", p, None, NoRequest, r.ret, <<>>, r)
            /\ UNCHANGED <<issued, now, writer, pc>>

(* the file damaged from outside the program (an editor, a write cut short) *)
CorruptDocs == { Doc("text", "{oops", <<>>) }

CorruptFile ==
    \E d \in CorruptDocs :
        /\ file' = FileOf(d)
        /\ last' = Call("corrupt", <<>>, None, NoRequest, TRUE, <<>>, NoResult)
        /\ UNCHANGED <<backup, issued, now, writer, pc>>

Next ==
    \/ Main
    \/ CorruptFile
    \/ AddTask
    \/ ListTasks
    \/ CompleteTask
    \/ DeleteTask

Spec == Init /\ [][Next]_vars

-----------------------------------------------------------------------------
(* The persistence layer alone: save_tasks and load_tasks called directly, *)
(* and the file replaced from outside the program (an editor, a write cut  *)
(* short).                                                                 *)

SampleTasks ==
    { Task(<<"a", "a">>, <<"x">>, now_str(0), Some(Date_2024_01_01), 2, FALSE),
      Task(<<"a", "b">>, <<"y">>, now_str(1), None, 7, TRUE),
      Task(<<"a", "a">>, <<>>, now_str(0), None, 3, TRUE) }

Collections ==
    UNION {[1..n -> SampleTasks] : n \in 0..MaxTasks}

ExternalDocs ==
    CorruptDocs \cup
    { Doc("text", "[{\"id\": ", <<>>),
      Doc("scalar", "null", <<>>),
      Doc("object", "{}", <<>>),
      Doc("array", "", << [id |-> <<"b", "b">>, name |-> <<"z">>] >>),
      Doc("array", "", << [title |-> <<"z">>, created_at |-> now_str(0)] >>),
      Doc("array", "", << [id |-> <<"b", "b">>, title |-> <<"z">>,
                           created_at |-> now_str(0)] >>) }

ExternalWrite ==
    \E d \in ExternalDocs :
        /\ file' = FileOf(d)
        /\ last' = Call("external", <<>>, None, NoRequest, TRUE, <<>>, NoResult)
        /\ UNCHANGED <<backup, issued, now, writer, pc>>

SaveTasks ==
    \E tasks \in Collections :
        /\ file' = save_tasks(tasks)
        /\ last' = Call("save", <<>>, None, NoRequest, TRUE, tasks,
                        [wrote |-> TRUE, loaded |-> 0])
        /\ UNCHANGED <<backup, issued, now, writer, pc>>

LoadTasks ==
    \E l \in {load_tasks(file, backup)} :
        /\ file' = l.file
        /\ backup' = l.backup
        /\ last' = Call("load", <<>>, None, NoRequest, TRUE, l.ret,
                        [wrote |-> FALSE, loaded |-> Len(l.ret)])
        /\ UNCHANGED <<issued, now, writer, pc>>

NextStore ==
    \/ ExternalWrite
    \/ SaveTasks
    \/ LoadTasks

SpecStore == Init /\ [][NextStore]_vars

-----------------------------------------------------------------------------
(***************************************************************************)
(* Two writers, each running add_task once, with no lock: add_task is      *)
(* the steps load_tasks (the whole file read), the task built and appended *)
(* in memory, save_tasks (the whole file written).  Steps of the two       *)
(* writers interleave freely.  overlapped tells that the other writer was  *)
(* between its load and its save at some moment this one was too; saved    *)
(* numbers the saves in the order they happened.                           *)
(***************************************************************************)

(* tasks.append(task) that forgets the list *)
tasks_append_alone(tasks, task) == <<task>>

(* tasks.append(task) *)
tasks_append(tasks, task) == Append(tasks, task)

InitWriters ==
    /\ file \in {NoFile, save_tasks(<<>>)}
    /\ backup = NoFile
    /\ issued = {}
    /\ now = 0
    /\ last = Call("none", <<>>, None, NoRequest, FALSE, <<>>, NoResult)
    /\ writer = [w \in Writers |-> NoWriter]
    /\ pc = "prompt"

(* add_task up to tasks.append *)
WriterLoad ==
    \E w \in Writers :
        /\ writer[w].pc = "start"
        /\ \E req \in AddRequests, id \in uuid4(issued) :
           \E t \in {c \in ClockReadings : c >= now} :
           \E l \in {load_tasks(file, backup)} :
                /\ file' = l.file
                /\ backup' = l.backup
                /\ issued' = issued \cup {id}
                /\ now' = t
                /\ writer' =
                      [v \in Writers |->
                         IF v = w
                         THEN [pc |-> "loaded",
                               tasks |-> l.ret,
                               task |-> <<Task(id, strip(req.title), now_str(t),
                                               req.due_date, req.priority, FALSE)>>,
                               overlapped |->
                                   \E u \in Writers \ {w} : writer[u].pc = "loaded",
                               saved |-> 0]
                         ELSE IF writer[v].pc = "loaded"
                         THEN [writer[v] EXCEPT !.overlapped = TRUE]
                         ELSE writer[v]]
                /\ UNCHANGED <<last, pc>>

(* add_task from tasks.append on: save_tasks(tasks) *)
WriterSave ==
    \E w \in Writers :
        /\ writer[w].pc = "loaded"
        /\ file' = save_tasks(tasks_append(writer[w].tasks, writer[w].task[1]))
        /\ writer' =
              [writer EXCEPT
                 ![w].pc = "done",
                 ![w].saved = 1 + Cardinality({u \in Writers : writer[u].pc = "done"})]
        /\ UNCHANGED <<backup, issued, now, last, pc>>

NextWriters ==
    \/ WriterLoad
    \/ WriterSave

SpecWriters == InitWriters /\ [][NextWriters]_vars

-----------------------------------------------------------------------------
(***************************************************************************)
(* menu(): one step is one turn of its loop, from the "Choose: " prompt    *)
(* back to it (or out of the loop), with the lines typed at the prompts    *)
(* of that turn.  input() returns a line: a session whose input ends       *)
(* leaves menu() by EOFError, not by its loop.                             *)
(***************************************************************************)

min(a, b) == IF a <= b THEN a ELSE b
max(a, b) == IF a >= b THEN a ELSE b

(* int(raw) for a stripped raw: None for ValueError, else Some(value).     *)
(* An optional sign, then decimal digits.                                  *)
int_literal(raw) ==
    LET signed == raw # <<>> /\ raw[1] \in {"+", "-"}
        body == IF signed THEN Tail(raw) ELSE raw
    IN  IF body # <<>> /\ \A i \in 1..Len(body) : IsDigit(body[i])
        THEN Some(IF signed /\ raw[1] = "-" THEN 0 - int(body) ELSE int(body))
        ELSE None

(* input_int that returns the number as typed *)
input_int_unclamped(line, default) ==
    LET raw == strip(line)
    IN  IF raw = <<>> THEN default
        ELSE LET val == int_literal(raw)
             IN  IF val = None THEN default ELSE val[1]

(* input_int, line being what input(prompt) returns *)
input_int(line, default) ==
    LET raw == strip(line)
    IN  IF raw = <<>> THEN default
        ELSE LET val == int_literal(raw)
             IN  IF val = None THEN default ELSE min(5, max(1, val[1]))

(* Lines typed at the prompts *)
ChoiceLines ==
    { <<"0">>, <<"1">>, <<"2">>, <<"3">>, <<"4">>, <<"5">>, <<"6">>,
      <<" ", "2">>, <<"7">>, <<>> }
TitleLines == { <<" ", "x", " ">> }
DueLines ==
    { <<>>, <<"2", "0", "2", "4", "-", "1", "-", "5">>, Date_2024_13_40 }
PriorityLines ==
    { <<>>, <<"a">>, <<"0">>, <<"9">>, <<"-", "2">>, <<" ", "4">> }
TidLines == { <<>>, <<" ">>, <<"a">>, <<"b">> }

NoLines == [title |-> <<>>, due |-> <<>>, pri |-> <<>>, tid |-> <<>>]

(* A turn of the loop and its outcome: the choice typed, the branch taken, *)
(* the lines typed in the branch, the message printed, what print_tasks    *)
(* printed, and the wrote and loaded of the operation's result.            *)
Turn(choice, branch, typed, message, shown, r) ==
    [op |-> "menu", choice |-> choice, branch |-> branch, typed |-> typed,
     message |-> message, shown |-> shown, wrote |-> r.wrote,
     loaded |-> r.loaded]

NotShown == [message |-> "", order |-> <<>>, rows |-> <<>>, tasks |-> <<>>]

(* the store a session starts from: two tasks of earlier sessions *)
MenuStore ==
    << Task(<<"a", "a">>, <<"x">>, now_str(0), Some(Date_2024_01_01), 2, FALSE),
       Task(<<"a", "b">>, <<"y">>, now_str(1), None, 5, TRUE) >>

InitMenu ==
    /\ file = save_tasks(MenuStore)
    /\ backup = NoFile
    /\ issued = {MenuStore[i].id : i \in 1..Len(MenuStore)}
    /\ now = 1
    /\ last = Turn(<<>>, "none", NoLines, "", NotShown, NoResult)
    /\ writer = [w \in Writers |-> NoWriter]
    /\ pc = "prompt"

MenuAdd ==
    /\ pc = "prompt"
    /\ Len(Stored) < MaxTasks
    /\ \E choice \in ChoiceLines :
        /\ strip(choice) = <<"1">>
        /\ \E title \in TitleLines, due \in DueLines, pri \in PriorityLines :
           \E id \in uuid4(issued), pad_year \in BOOLEAN :
           \E t \in {c \in ClockReadings : c >= now} :
           \E r \in {add_task(file, backup, strip(title),
                               parse_due_date(due, pad_year),
                               input_int(pri, 3), id, t)} :
                /\ file' = r.file
                /\ backup' = r.backup
                /\ issued' = issued \cup {id}
                /\ now' = t
                /\ last' = Turn(choice, "add",
                                [title |-> title, due |-> due, pri |-> pri,
                                 tid |-> <<>>],
                                "Added task", NotShown, r)
                /\ UNCHANGED <<writer, pc>>

MenuListOf(key, branch, show_completed) ==
    /\ pc = "prompt"
    /\ \E choice \in ChoiceLines :
        /\ strip(choice) = <<key>>
        /\ \E r \in {list_tasks(file, backup, show_completed)} :
                /\ file' = r.file
                /\ backup' = r.backup
                /\ last' = Turn(choice, branch, NoLines, "",
                                print_tasks(r.ret), r)
                /\ UNCHANGED <<issued, now, writer, pc>>

MenuList == MenuListOf("2", "list", None)

MenuListTodo == MenuListOf("5", "todo", Some(FALSE))

MenuListDone == MenuListOf("6", "done", Some(TRUE))

MenuComplete ==
    /\ pc = "prompt"
    /\ \E choice \in ChoiceLines :
        /\ strip(choice) = <<"3">>
        /\ \E tid \in TidLines :
           \E r \in {complete_task(file, backup, strip(tid))} :
                /\ file' = r.file
                /\ backup' = r.backup
                /\ last' = Turn(choice, "complete", [NoLines EXCEPT !.tid = tid],
                                IF r.ret THEN "Marked complete."
                                ELSE "Task not found.",
                                NotShown, r)
                /\ UNCHANGED <<issued, now, writer, pc>>

MenuDelete ==
    /\ pc = "prompt"
    /\ \E choice \in ChoiceLines :
        /\ strip(choice) = <<"4">>
        /\ \E tid \in TidLines :
           \E r \in {delete_task(file, backup, strip(tid))} :
                /\ file' = r.file
                /\ backup' = r.backup
                /\ last' = Turn(choice, "delete", [NoLines EXCEPT !.tid = tid],
                                IF r.ret THEN "Deleted." ELSE "Task not found.",
                                NotShown, r)
                /\ UNCHANGED <<issued, now, writer, pc>>

MenuQuit ==
    /\ pc = "prompt"
    /\ \E choice \in ChoiceLines :
        /\ strip(choice) = <<"0">>
        /\ pc' = "returned"
        /\ last' = Turn(choice, "quit", NoLines, "Bye!", NotShown, NoResult)
        /\ UNCHANGED <<file, backup, issued, now, writer>>

(* the else branch of menu leaving the loop *)
MenuInvalidQuits ==
    /\ pc = "prompt"
    /\ \E choice \in ChoiceLines :
        /\ strip(choice) \notin
              {<<"0">>, <<"1">>, <<"2">>, <<"3">>, <<"4">>, <<"5">>, <<"6">>}
        /\ pc' = "returned"
        /\ last' = Turn(choice, "invalid", NoLines,
                        "Invalid choice. Try again.", NotShown, NoResult)
        /\ UNCHANGED <<file, backup, issued, now, writer>>

MenuInvalid ==
    /\ pc = "prompt"
    /\ \E choice \in ChoiceLines :
        /\ strip(choice) \notin
              {<<"0">>, <<"1">>, <<"2">>, <<"3">>, <<"4">>, <<"5">>, <<"6">>}
        /\ last' = Turn(choice, "invalid", NoLines,
                        "Invalid choice. Try again.", NotShown, NoResult)
        /\ UNCHANGED <<file, backup, issued, now, writer, pc>>

NextMenu ==
    \/ MenuAdd
    \/ MenuList
    \/ MenuComplete
    \/ MenuDelete
    \/ MenuListTodo
    \/ MenuListDone
    \/ MenuQuit
    \/ MenuInvalid
    \/ CorruptFile

SpecMenu == InitMenu /\ [][NextMenu]_vars

-----------------------------------------------------------------------------
(* Recoveries in a row: the file replaced from outside, load_tasks called, *)
(* again and again.  last.recovered lists the contents load_tasks has      *)
(* moved to the backup path, in the order it moved them.                   *)

InitRecover ==
    /\ file = NoFile
    /\ backup = NoFile
    /\ issued = {}
    /\ now = 0
    /\ last = [op |-> "none", out |-> <<>>, recovered |-> <<>>]
    /\ writer = [w \in Writers |-> NoWriter]
    /\ pc = "prompt"

DamageFile ==
    /\ Len(last.recovered) < MaxRecoveries
    /\ \E d \in ExternalDocs :
        /\ file' = FileOf(d)
        /\ last' = [last EXCEPT !.op = "external", !.out = <<>>]
        /\ UNCHANGED <<backup, issued, now, writer, pc>>

Recover ==
    \E l \in {load_tasks(file, backup)} :
        /\ file' = l.file
        /\ backup' = l.backup
        /\ last' = [op |-> "load", out |-> l.ret,
                    recovered |-> IF file.exists /\ LoadRaises(file.doc)
                                  THEN Append(last.recovered, file.doc)
                                  ELSE last.recovered]
        /\ UNCHANGED <<issued, now, writer, pc>>

NextRecover ==
    \/ DamageFile
    \/ Recover

SpecRecover == InitRecover /\ [][NextRecover]_vars

-----------------------------------------------------------------------------
(* print_tasks called on lists of tasks as add_task can have stored them   *)
(* (it stores the due date it is given, the empty string too).             *)

PrintSamples ==
    { Task(<<"a", "a">>, <<"x">>, now_str(0), Some(Date_2024_01_01), 2, FALSE),
      Task(<<"a", "b">>, <<"y">>, now_str(0), Some(Date_2024_01_01), 2, FALSE),
      Task(<<"b", "a">>, <<"x">>, now_str(1), Some(Date_2024_01_01), 2, FALSE),
      Task(<<"b", "b">>, <<"x">>, now_str(0), Some(Date_2024_01_01), 1, TRUE),
      Task(<<"a", "a">>, <<"y">>, now_str(1), None, 1, FALSE),
      Task(<<"a", "b">>, <<"x">>, now_str(0), Some(<<>>), 3, FALSE) }

PrintInputs ==
    UNION {[1..n -> PrintSamples] : n \in 0..MaxTasks}

(* a call about to be made: its argument *)
InitPrint ==
    /\ file = NoFile
    /\ backup = NoFile
    /\ issued = {}
    /\ now = 0
    /\ last \in { [op |-> "input", arg |-> tasks, shown |-> NotShown] :
                      tasks \in PrintInputs }
    /\ writer = [w \in Writers |-> NoWriter]
    /\ pc = "prompt"

PrintTasks ==
    /\ last.op = "input"
    /\ last' = [last EXCEPT !.op = "print_tasks",
                            !.shown = print_tasks(last.arg)]
    /\ UNCHANGED <<file, backup, issued, now, writer, pc>>

NextPrint == PrintTasks

SpecPrint == InitPrint /\ [][NextPrint]_vars

-----------------------------------------------------------------------------
(* parse_due_date called on lines made of a year, a month and a day        *)
(* written in several ways, joined by a separator, with or without blanks  *)
(* around, and on lines that are no date at all; under both behaviours of  *)
(* the C library's %Y.                                                     *)

YearTexts ==
    { <<"2", "0", "2", "4">>, <<"2", "0", "2", "3">>, <<"0", "9", "9", "9">>,
      <<"0", "0", "0", "0">>, <<"2", "4">> }
MonthTexts ==
    { <<"0", "1">>, <<"1">>, <<"0", "2">>, <<"2">>, <<"1", "2">>,
      <<"1", "3">>, <<"0", "0">> }
DayTexts ==
    { <<"0", "1">>, <<"5">>, <<" ", "5">>, <<"2", "9">>, <<"3", "0">>,
      <<"3", "1">>, <<"4", "0">>, <<"0">> }
Separators == { <<"-">>, <<" ">>, <<>> }
Margins == { <<>>, <<" ">> }

ParseInputs ==
    { g \o y \o p \o m \o p \o d \o g :
        y \in YearTexts, m \in MonthTexts, d \in DayTexts,
        p \in Separators, g \in Margins }
    \cup { <<>>, <<" ">>, <<" ", " ">>, Date_2024_01_01 \o <<"1">>,
           <<"-">> \o Date_2024_01_01 }

(* a call about to be made: its argument and the C library it runs on *)
InitParse ==
    /\ file = NoFile
    /\ backup = NoFile
    /\ issued = {}
    /\ now = 0
    /\ last \in { [op |-> "input", arg |-> s, pad_year |-> pad_year,
                    ret |-> None] :
                      s \in ParseInputs, pad_year \in BOOLEAN }
    /\ writer = [w \in Writers |-> NoWriter]
    /\ pc = "prompt"

ParseDueDate ==
    /\ last.op = "input"
    /\ last' = [last EXCEPT !.op = "parse_due_date",
                            !.ret = parse_due_date(last.arg, last.pad_year)]
    /\ UNCHANGED <<file, backup, issued, now, writer, pc>>

NextParse == ParseDueDate

SpecParse == InitParse /\ [][NextParse]_vars

-----------------------------------------------------------------------------
(* Properties.  HasPrefix, IsTrimOf and Select state what a prefix, a      *)
(* trimmed string and a filtered list are without the operators above.     *)

HasPrefix(id, p) == \E n \in 0..Len(id) : SubSeq(id, 1, n) = p

MatchingAt(tasks, p) == {i \in 1..Len(tasks) : HasPrefix(tasks[i].id, p)}

IsTrimOf(t, s) ==
    \E i \in 0..Len(s), j \in 0..Len(s) :
        /\ i + j <= Len(s)
        /\ t = SubSeq(s, i + 1, Len(s) - j)
        /\ \A k \in 1..i : s[k] = " "
        /\ \A k \in (Len(s) - j + 1)..Len(s) : s[k] = " "
        /\ t # <<>> => t[1] # " " /\ t[Len(t)] # " "

IsCompleted(t) == t.completed
IsTodo(t) == ~t.completed

(* C1: every task add_task stores or returns has a priority from 1 to 5,   *)
(* whatever priority it was called with, so every stored task has one.     *)
C1_PriorityInRange ==
    /\ \A i \in 1..Len(Stored) : Stored[i].priority \in 1..5
    /\ last.op = "add" => \A i \in 1..Len(last.out) : last.out[i].priority \in 1..5

(* C2: complete_task called with the full id of a stored task, or with a   *)
(* prefix of its id that no other stored id starts with, returns True and  *)
(* changes the stored collection in that task's completed flag only.       *)
C2_CompleteByUniquePrefix ==
    [][ last'.op = "complete" =>
          LET before == Stored
              after == Stored'
              matching == MatchingAt(before, last'.pfx)
          IN  \A i \in matching :
                  (last'.pfx = before[i].id \/ matching = {i})
                  => /\ last'.ok
                     /\ after = [before EXCEPT ![i].completed = TRUE] ]_vars

C2_Witness ==
    /\ last.op = "complete" /\ last.ok /\ last.pfx = <<"a">>
    /\ Len(Stored) = 3
    /\ \E i \in 1..3 :
          /\ MatchingAt(Stored, <<"a">>) = {i}
          /\ Stored[i].completed
          /\ \A j \in 1..3 : j # i => ~Stored[j].completed

(* C3: delete_task removes exactly the stored tasks whose id starts with   *)
(* the prefix, all of them, keeps the others as they were and in their     *)
(* order, and returns True exactly when it removed a task.                 *)
C3_DeleteRemovesAllMatches ==
    [][ last'.op = "delete" =>
          LET before == Stored
              Kept(t) == ~HasPrefix(t.id, last'.pfx)
          IN  /\ Stored' = SelectSeq(before, Kept)
              /\ last'.ok = (MatchingAt(before, last'.pfx) # {}) ]_vars

C3_Witness ==
    /\ last.op = "delete" /\ last.ok /\ last.pfx = <<"a">>
    /\ last.loaded = 3
    /\ Len(Stored) = 1

(* C4: when several stored ids start with the prefix, complete_task sets   *)
(* completed on the first of them in stored order only, leaves the later   *)
(* ones as they were and returns True.                                     *)
C4_CompleteFirstMatchOnly ==
    [][ last'.op = "complete" =>
          LET before == Stored
              matching == MatchingAt(before, last'.pfx)
              first == CHOOSE i \in matching : \A j \in matching : i <= j
          IN  Cardinality(matching) >= 2 =>
                  /\ last'.ok
                  /\ Stored' = [before EXCEPT ![first].completed = TRUE] ]_vars

C4_Witness ==
    /\ last.op = "complete" /\ last.ok /\ last.pfx = <<"a">>
    /\ \E i, j \in MatchingAt(Stored, <<"a">>) :
          /\ i < j
          /\ Stored[i].completed
          /\ ~Stored[j].completed

(* C5: load_tasks returns the empty list when the file is absent; when the *)
(* file's content makes parsing fail it returns the empty list, the backup *)
(* path then holds that content and the file is gone from its own path.    *)
C5_LoadRecovers ==
    [][ last'.op = "load" =>
          /\ ~file.exists =>
                /\ last'.out = <<>>
                /\ file' = file /\ backup' = backup
          /\ (file.exists /\ LoadRaises(file.doc)) =>
                /\ last'.out = <<>>
                /\ backup'.exists /\ backup'.doc = file.doc
                /\ ~file'.exists ]_vars

C5_Witness ==
    /\ last.op = "load" /\ last.out = <<>>
    /\ ~file.exists
    /\ backup.exists /\ backup.doc.kind = "array"

(* C6: load_tasks after save_tasks(tasks) returns tasks, the same length,  *)
(* order and fields, whatever the file held before the save.               *)
C6_SaveLoadRoundTrip ==
    [][ /\ last'.op = "save" => load_tasks(file', backup').ret = last'.out
        /\ (last.op = "save" /\ last'.op = "load") =>
              /\ last'.out = last.out
              /\ file' = file ]_vars

C6_Witness ==
    /\ last.op = "load" /\ Len(last.out) = 3
    /\ last.out[1].completed /\ ~last.out[2].completed
    /\ last.out[3].due_date = None
    /\ backup.exists

(* C7: complete_task and delete_task called with a prefix no stored id     *)
(* starts with return False, do not write (the file keeps its content, or  *)
(* is moved away by load_tasks when it cannot be parsed), and leave the     *)
(* stored collection as it was.                                            *)
C7_UnknownPrefix ==
    [][ last'.op \in {"complete", "delete"} =>
          LET before == Stored
          IN  MatchingAt(before, last'.pfx) = {} =>
                  /\ ~last'.ok
                  /\ ~last'.wrote
                  /\ file' \in {file, NoFile}
                  /\ Stored' = before ]_vars

C7_Witness ==
    /\ last.op = "delete" /\ ~last.ok /\ last.pfx = <<"a", "a">>
    /\ Len(Stored) = 3

(* C8: the ids of the stored tasks are pairwise distinct.                  *)
C8_UniqueIds ==
    LET stored == Stored
    IN  \A i, j \in 1..Len(stored) : i # j => stored[i].id # stored[j].id

C8_Witness ==
    /\ last.op = "add"
    /\ Len(Stored) = 3
    /\ Cardinality(issued) = 4

(* C9: add_task appends one task to the end of the stored collection, with *)
(* the trimmed title, the due date given and completed False, changes no   *)
(* other task, and returns the task it stored.                             *)
C9_AddAppends ==
    [][ last'.op = "add" =>
          /\ Len(last'.out) = 1
          /\ LET before == Stored
                 task == last'.out[1]
             IN  /\ Stored' = Append(before, task)
                 /\ IsTrimOf(task.title, last'.req.title)
                 /\ task.due_date = last'.req.due_date
                 /\ task.completed = FALSE
                 /\ list_tasks(file', backup', None).ret = before \o <<task>> ]_vars

C9_Witness ==
    /\ last.op = "add" /\ last.req.title = <<" ", "x", " ">>
    /\ Len(Stored) = 3
    /\ Stored[3].title = <<"x">>
    /\ Stored[1].completed

(* C10: list_tasks returns, in stored order, the tasks whose completed     *)
(* flag equals the filter, or all of them without a filter; the two        *)
(* filtered lists share no task and together hold every stored task.       *)
C10_ListFilter ==
    LET stored == Stored
        all == list_tasks(file, backup, None).ret
        todo == list_tasks(file, backup, Some(FALSE)).ret
        done == list_tasks(file, backup, Some(TRUE)).ret
        Elems(q) == {q[i] : i \in 1..Len(q)}
    IN  /\ all = stored
        /\ todo = SelectSeq(stored, IsTodo)
        /\ done = SelectSeq(stored, IsCompleted)
        /\ Elems(todo) \cap Elems(done) = {}
        /\ Elems(todo) \cup Elems(done) = Elems(all)
        /\ Len(todo) + Len(done) = Len(all)
        /\ last.op = "list" =>
              last.out = IF last.filt = None THEN all
                         ELSE IF last.filt = Some(TRUE) THEN done ELSE todo

C10_Witness ==
    /\ last.op = "list" /\ last.filt = Some(FALSE)
    /\ Len(last.out) = 2
    /\ Len(Stored) = 3

(* C11: list_tasks does not change the stored collection and does not      *)
(* write; two calls without a filter, one right after the other, return    *)
(* the same list, which is the stored collection before and after them.    *)
C11_ListReadOnly ==
    [][ last'.op = "list" =>
          LET before == Stored
              after == Stored'
          IN  /\ after = before
              /\ ~last'.wrote
              /\ (last.op = "list" /\ last.filt = None /\ last'.filt = None)
                    => /\ last'.out = last.out
                       /\ last'.out = before
                       /\ file' = file ]_vars

C11_Witness ==
    /\ last.op = "list" /\ last.filt = None
    /\ Len(last.out) = 3
    /\ last.out = Stored
    /\ last.out[1].completed /\ ~last.out[2].completed

(* a date written YYYY-MM-DD: four, two and two digits, a month of the     *)
(* year and a day of that month                                            *)
IsIsoDate(s) ==
    /\ Len(s) = 10
    /\ \A i \in {1, 2, 3, 4, 6, 7, 9, 10} : IsDigit(s[i])
    /\ s[5] = "-" /\ s[8] = "-"
    /\ LET year == int(SubSeq(s, 1, 4))
           month == int(SubSeq(s, 6, 7))
           day == int(SubSeq(s, 9, 10))
       IN  /\ month \in 1..12
           /\ day \in 1..DaysInMonth(year, month)

(* C12: every stored task has no due date or one that is a valid date      *)
(* written YYYY-MM-DD, whatever due date add_task was called with.         *)
C12_DueDateValid ==
    LET stored == Stored
    IN  \A i \in 1..Len(stored) :
            stored[i].due_date # None => IsIsoDate(stored[i].due_date[1])

(* C13: over every step of add_task, complete_task, delete_task and        *)
(* list_tasks a task that stays stored keeps its id, title, created_at,    *)
(* due_date and priority, and its completed flag stays True once True; a   *)
(* task changes only in a complete_task step, goes only in a delete_task   *)
(* step and comes only in an add_task step.                                *)
C13_Lifecycle ==
    [][ last'.op \in {"main", "add", "list", "complete", "delete"} =>
          \A before \in {Stored}, after \in {Stored'} :
          LET IdsOf(q) == {q[i].id : i \in 1..Len(q)}
          IN  /\ \A i \in 1..Len(before), j \in 1..Len(after) :
                    before[i].id = after[j].id =>
                        /\ after[j].title = before[i].title
                        /\ after[j].created_at = before[i].created_at
                        /\ after[j].due_date = before[i].due_date
                        /\ after[j].priority = before[i].priority
                        /\ before[i].completed => after[j].completed
                        /\ after[j] # before[i] => last'.op = "complete"
              /\ ~(IdsOf(before) \subseteq IdsOf(after)) => last'.op = "delete"
              /\ ~(IdsOf(after) \subseteq IdsOf(before)) => last'.op = "add" ]_vars

C13_Witness ==
    /\ last.op = "complete" /\ last.ok /\ last.pfx = <<>>
    /\ last.loaded = 2
    /\ Len(Stored) = 2
    /\ Stored[1].completed /\ ~Stored[2].completed
    /\ Cardinality(issued) = 3

(* C14: when both writers have run add_task, the file holds only the task  *)
(* of the writer that saved last if their calls overlapped (the other      *)
(* task is lost), and both tasks, in the order of the saves, if one call   *)
(* ended before the other began.                                           *)
C14_LostUpdate ==
    (\A w \in Writers : writer[w].pc = "done") =>
        LET first == CHOOSE w \in Writers : writer[w].saved = 1
            second == CHOOSE w \in Writers : writer[w].saved = 2
        IN  /\ writer[first].overlapped = writer[second].overlapped
            /\ writer[second].overlapped =>
                  Stored = writer[second].task
            /\ ~writer[second].overlapped =>
                  Stored = writer[first].task \o writer[second].task

C14_Witness ==
    /\ \A w \in Writers : writer[w].pc = "done" /\ writer[w].overlapped
    /\ Len(Stored) = 1
    /\ Cardinality(issued) = 2
    /\ writer[1].saved = 2
    /\ Stored = writer[1].task

IsBlank(line) == \A k \in 1..Len(line) : line[k] = " "

(* C15: a turn of the menu starts at the prompt and ends at the prompt,    *)
(* unless the choice typed is 0, surrounding blanks apart, and then        *)
(* menu returns; nothing happens after it has returned.  A turn with an    *)
(* invalid choice or a list choice (2, 5, 6) leaves the stored collection  *)
(* as it was and writes nothing, and the file too unless it cannot be      *)
(* parsed.                                                                 *)
C15_MenuLoop ==
    [][ last'.op = "menu" =>
          /\ pc = "prompt"
          /\ pc' \in {"prompt", "returned"}
          /\ (pc' = "returned") <=>
                (\E i, j \in 0..Len(last'.choice) :
                    /\ i + 1 + j = Len(last'.choice)
                    /\ last'.choice[i + 1] = "0"
                    /\ IsBlank(SubSeq(last'.choice, 1, i))
                    /\ IsBlank(SubSeq(last'.choice, i + 2, Len(last'.choice))))
          /\ (pc' = "returned") <=> (last'.branch = "quit")
          /\ last'.branch \in {"invalid", "list", "todo", "done"} =>
                \A before \in {Stored} :
                    /\ Stored' = before
                    /\ ~last'.wrote
                    /\ <<issued', now'>> = <<issued, now>>
                    /\ ~(file.exists /\ LoadRaises(file.doc)) =>
                          <<file', backup'>> = <<file, backup>> ]_vars

C15_Witness ==
    /\ last.op = "menu" /\ last.branch = "invalid" /\ last.choice = <<"7">>
    /\ pc = "prompt"
    /\ Len(Stored) = 3
    /\ Stored[1].completed

(* what the lines of PriorityLines say: a number, or none *)
Typed(line) ==
    IF line = <<"0">> THEN Some(0)
    ELSE IF line = <<"9">> THEN Some(9)
    ELSE IF line = <<"-", "2">> THEN Some(0 - 2)
    ELSE IF line = <<" ", "4">> THEN Some(4)
    ELSE None

(* C16: the task the menu's Add stores has the priority min(5, max(1, n))  *)
(* when the line typed is an integer n and 3 when it is empty or not a     *)
(* number, so every stored task has a priority from 1 to 5.                *)
C16_MenuPriority ==
    [][ (last'.op = "menu" /\ last'.branch = "add") =>
          \A after \in {Stored'} :
              LET task == after[Len(after)]
                  n == Typed(last'.typed.pri)
              IN  /\ Len(after) = Len(Stored) + 1
                  /\ n = None => task.priority = 3
                  /\ n # None =>
                        task.priority = IF n[1] < 1 THEN 1
                                        ELSE IF n[1] > 5 THEN 5 ELSE n[1]
                  /\ \A i \in 1..Len(after) : after[i].priority \in 1..5 ]_vars

C16_Witness ==
    /\ last.op = "menu" /\ last.branch = "add"
    /\ last.typed.pri = <<"9">>
    /\ Len(Stored) = 3
    /\ Stored[3].priority = 5

(* C19: the empty string is a prefix of every id.  When the line typed at  *)
(* the menu's Complete or Delete prompt is blank and the store holds a     *)
(* task, Delete removes every task and prints "Deleted.", Complete sets    *)
(* completed on the first stored task only and prints "Marked complete.";  *)
(* neither prints "Task not found.".                                       *)
C19_BlankPrefix ==
    [][ (/\ last'.op = "menu"
         /\ last'.branch \in {"complete", "delete"}
         /\ IsBlank(last'.typed.tid)) =>
          \A before \in {Stored}, after \in {Stored'} :
              before # <<>> =>
                  /\ \A i \in 1..Len(before) : HasPrefix(before[i].id, <<>>)
                  /\ last'.message # "Task not found."
                  /\ last'.wrote
                  /\ last'.branch = "delete" =>
                        /\ after = <<>>
                        /\ last'.message = "Deleted."
                  /\ last'.branch = "complete" =>
                        /\ after = [before EXCEPT ![1].completed = TRUE]
                        /\ last'.message = "Marked complete." ]_vars

C19_Witness ==
    /\ last.op = "menu" /\ last.branch = "delete"
    /\ last.typed.tid = <<" ">>
    /\ last.message = "Deleted."
    /\ last.loaded = 3
    /\ Stored = <<>>

(* the sort key as the specification states it: only an absent due date    *)
(* counts as 9999-12-31                                                    *)
StatedKey(t) ==
    <<t.completed, IF t.due_date = None THEN Sentinel ELSE t.due_date[1],
      t.priority, t.created_at>>

(* C17: the order print_tasks prints in is a permutation of the list it    *)
(* is given, ascending in the key (completed, due date or 9999-12-31 when  *)
(* absent, priority, created_at), tasks of equal key in the order they     *)
(* came in, every task not completed before every completed one; the list  *)
(* passed in is left as it was.                                            *)
C17_DisplayOrder ==
    last.op = "print_tasks" =>
        LET in == last.arg
            out == last.shown.order
            n == Len(in)
        IN  /\ Len(out) = n
            /\ \E f \in [1..n -> 1..n] :
                  /\ \A i, j \in 1..n : i # j => f[i] # f[j]
                  /\ \A i \in 1..n : out[i] = in[f[i]]
                  /\ \A i, j \in 1..n :
                        i < j =>
                          /\ ~KeyLess(StatedKey(out[j]), StatedKey(out[i]))
                          /\ StatedKey(out[i]) = StatedKey(out[j]) => f[i] < f[j]
            /\ \A i, j \in 1..n : (i < j /\ out[i].completed) => out[j].completed
            /\ last.shown.tasks = in

(* the line s without the blanks around it *)
Trimmed(s) == CHOOSE t \in {SubSeq(s, i, j) : i \in 1..Len(s) + 1, j \in 0..Len(s)} :
                  IsTrimOf(t, s)

(* C18 as stated: parse_due_date returns None when the trimmed input is    *)
(* empty or is not a valid date written YYYY-MM-DD with month and day in   *)
(* two digits, and the trimmed input itself when it is one.                *)
C18_StrictParse ==
    last.op = "parse_due_date" =>
        LET t == Trimmed(last.arg)
        IN  /\ t = <<>> => last.ret = None
            /\ ~IsIsoDate(t) => last.ret = None
            /\ IsIsoDate(t) => last.ret = Some(t)

(* the ways strptime accepts year y, month m and day d written *)
Writings(y, m, d) ==
    { zfill(y, 4) \o <<"-">> \o ms \o <<"-">> \o ds :
        ms \in {zfill(m, 1), zfill(m, 2)},
        ds \in {zfill(d, 1), zfill(d, 2)}
                \cup (IF d < 10 THEN {<<" ">> \o zfill(d, 1)} ELSE {}) }

(* C18 amended: parse_due_date returns None when the trimmed input is      *)
(* empty or is not a year from 0001 on in four digits, "-", a month in one *)
(* or two digits, "-", a day of that month in one or two digits (a         *)
(* one-digit day may have a blank before it); otherwise it returns that    *)
(* date with month and day in two digits and the year as the C library     *)
(* prints it (in four digits, or without its leading zeros), which is the  *)
(* trimmed input when that is written YYYY-MM-DD with a year from 1000 on. *)
C18_ParseNormalises ==
    last.op = "parse_due_date" =>
        LET t == Trimmed(last.arg)
            y == IF Len(t) >= 4 /\ \A i \in 1..4 : IsDigit(t[i])
                 THEN int(SubSeq(t, 1, 4)) ELSE 0
            dates == { md \in (1..12) \X (1..31) :
                         /\ y >= 1
                         /\ md[2] <= DaysInMonth(y, md[1])
                         /\ t \in Writings(y, md[1], md[2]) }
        IN  /\ dates = {} => last.ret = None
            /\ \A md \in dates :
                  last.ret = Some(zfill(y, IF last.pad_year THEN 4 ELSE 1)
                                  \o <<"-">> \o zfill(md[1], 2)
                                  \o <<"-">> \o zfill(md[2], 2))
            /\ t = <<>> => last.ret = None
            /\ t = Date_2024_13_40 => last.ret = None
            /\ (IsIsoDate(t) /\ y >= 1000) => last.ret = Some(t)

C18_Witness ==
    /\ last.op = "parse_due_date"
    /\ last.arg = <<" ", "2", "0", "2", "4", "-", "1", "-", "5", " ">>
    /\ last.ret = Some(<<"2", "0", "2", "4", "-", "0", "1", "-", "0", "5">>)

(* the contents the two paths hold *)
OnDisk ==
    (IF file.exists THEN {file.doc} ELSE {})
    \cup (IF backup.exists THEN {backup.doc} ELSE {})

(* C20: load_tasks has one backup path.  The backup holds the content of   *)
(* the latest recovery and nothing else; right after a recovery no path    *)
(* holds the content of an earlier recovery that differs from it: the      *)
(* second recovery has replaced the first backup.                          *)
C20_SingleBackup ==
    LET n == Len(last.recovered)
    IN  /\ backup.exists <=> n > 0
        /\ n > 0 => backup.doc = last.recovered[n]
        /\ (last.op = "load" /\ n > 0 /\ ~file.exists) =>
              /\ OnDisk = {last.recovered[n]}
              /\ \A i \in 1..n :
                    last.recovered[i] # last.recovered[n]
                        => last.recovered[i] \notin OnDisk

C20_Witness ==
    /\ last.op = "load"
    /\ Len(last.recovered) = 2
    /\ last.recovered[1] = Doc("text", "{oops", <<>>)
    /\ last.recovered[2] = Doc("scalar", "null", <<>>)
    /\ ~file.exists
    /\ backup = FileOf(Doc("scalar", "null", <<>>))

====
